---- MODULE Spec2Model ----
(***************************************************************************)
(* Model of the object utilities of linguify (src/src/init.ts, lines       *)
(* 48-191): flatten, unflatten, clear, sort and isAssignable.              *)
(*                                                                         *)
(* A JavaScript string is a sequence of one-character strings, so that     *)
(* splitting and joining keys is computed and not assumed.  A JavaScript   *)
(* value is a record tagged by "t":                                        *)
(*   [t |-> "num", n |-> 0]         a number                               *)
(*   [t |-> "str", s |-> <<"x">>]   a string                               *)
(*   [t |-> "bool", b |-> TRUE]     a boolean                              *)
(*   [t |-> "null"]                 null                                   *)
(*   [t |-> "undefined"]            undefined (a missing property)         *)
(*   [t |-> "obj", kv |-> ...]      a plain object                         *)
(*   [t |-> "arr", kv |-> ...]      an array                               *)
(* The kv of an object or array is the sequence of its own enumerable      *)
(* properties <<key, value>> in the order JavaScript enumerates them:      *)
(* array-index keys in ascending numeric order, then the other keys in     *)
(* the order of their creation.                                            *)
(***************************************************************************)
EXTENDS Integers, Sequences, FiniteSets, TLC

VARIABLES
  strict,   \* TRUE when the build runs the module as strict-mode code
  cur,      \* the value the caller holds and passes to the next call
  last,     \* the record of the latest call
  prev,     \* the record of the call before it
  calls     \* the number of calls made

vars == <<strict, cur, last, prev, calls>>

----------------------------------------------------------------------------
(* Values *)

Num(n) == [t |-> "num", n |-> n]
Str(s) == [t |-> "str", s |-> s]
Bool(b) == [t |-> "bool", b |-> b]
Null == [t |-> "null"]
Undefined == [t |-> "undefined"]
Obj(kv) == [t |-> "obj", kv |-> kv]
Arr(kv) == [t |-> "arr", kv |-> kv]

\* what a call that throws leaves behind instead of a return value
Throw(e) == [t |-> "throw", err |-> e]

\* lodash _.isObject: the language type Object, arrays included
isObject(v) == v.t \in {"obj", "arr"}

\* JavaScript typeof v == 'object': null and arrays included
TypeofObject(v) == v.t \in {"obj", "arr", "null"}

\* JavaScript ToBoolean
Truthy(v) ==
  CASE v.t = "num" -> v.n # 0
    [] v.t = "str" -> v.s # <<>>
    [] v.t = "bool" -> v.b
    [] v.t \in {"null", "undefined"} -> FALSE
    [] OTHER -> TRUE

----------------------------------------------------------------------------
(* Strings and property keys *)

Digits == <<"0", "1", "2", "3", "4", "5", "6", "7", "8", "9">>

IsDigit(c) == \E i \in 1..Len(Digits) : Digits[i] = c

DigitVal(c) == (CHOOSE i \in 1..Len(Digits) : Digits[i] = c) - 1

\* UTF-16 code unit of the characters the model uses
Code(c) ==
  CASE c = "." -> 46
    [] c = "/" -> 47
    [] IsDigit(c) -> 48 + DigitVal(c)
    [] c = "a" -> 97
    [] c = "b" -> 98
    [] c = "c" -> 99
    [] OTHER -> 120

\* s < u for JavaScript strings: by code units, a proper prefix first
RECURSIVE StrLess(_, _)
StrLess(s, u) ==
  IF u = <<>> THEN FALSE
  ELSE IF s = <<>> THEN TRUE
  ELSE IF Code(Head(s)) # Code(Head(u)) THEN Code(Head(s)) < Code(Head(u))
  ELSE StrLess(Tail(s), Tail(u))

\* a canonical array index ("0", "1", "10", but not "01" nor "")
IsIndex(k) ==
  /\ Len(k) >= 1
  /\ \A i \in 1..Len(k) : IsDigit(k[i])
  /\ (Len(k) > 1 => k[1] # "0")

RECURSIVE ToNum(_)
ToNum(k) == IF k = <<>> THEN 0 ELSE 10 * ToNum(SubSeq(k, 1, Len(k) - 1)) + DigitVal(k[Len(k)])

\* String(n) for n >= 0
RECURSIVE ToStr(_)
ToStr(n) == IF n < 10 THEN <<Digits[n + 1]>> ELSE ToStr(n \div 10) \o <<Digits[(n % 10) + 1]>>

\* String.prototype.split with a non-empty separator: every part, empty ones too
RECURSIVE SplitFrom(_, _, _, _)
SplitFrom(s, sep, i, part) ==
  IF i > Len(s) THEN <<part>>
  ELSE IF i + Len(sep) - 1 <= Len(s) /\ SubSeq(s, i, i + Len(sep) - 1) = sep
       THEN <<part>> \o SplitFrom(s, sep, i + Len(sep), <<>>)
       ELSE SplitFrom(s, sep, i + 1, Append(part, s[i]))

Split(s, sep) == SplitFrom(s, sep, 1, <<>>)

----------------------------------------------------------------------------
(* Own properties of an object *)

KeysOf(kv) == {kv[i][1] : i \in 1..Len(kv)}

HasKey(kv, k) == \E i \in 1..Len(kv) : kv[i][1] = k

\* object[k], undefined when there is no such own property
GetKey(kv, k) ==
  IF HasKey(kv, k) THEN kv[CHOOSE i \in 1..Len(kv) : kv[i][1] = k][2] ELSE Undefined

\* where a new property k is enumerated: an index key goes before every
\* non-index key and before the larger index keys, any other key goes last
InsertAt(kv, k) ==
  IF IsIndex(k)
  THEN LET later == {i \in 1..Len(kv) :
                       ~IsIndex(kv[i][1]) \/ ToNum(kv[i][1]) > ToNum(k)}
       IN IF later = {} THEN Len(kv) + 1
          ELSE CHOOSE i \in later : \A j \in later : i <= j
  ELSE Len(kv) + 1

\* object[k] = v on an ordinary object: an existing property keeps its place
Put(kv, k, v) ==
  IF HasKey(kv, k)
  THEN [i \in 1..Len(kv) |-> IF kv[i][1] = k THEN <<k, v>> ELSE kv[i]]
  ELSE LET p == InsertAt(kv, k)
       IN SubSeq(kv, 1, p - 1) \o << <<k, v>> >> \o SubSeq(kv, p, Len(kv))

\* _.fromPairs, and every lodash helper that fills a fresh {} key by key
RECURSIVE fromPairs(_)
fromPairs(pairs) ==
  IF pairs = <<>> THEN <<>>
  ELSE LET n == Len(pairs)
       IN Put(fromPairs(SubSeq(pairs, 1, n - 1)), pairs[n][1], pairs[n][2])

----------------------------------------------------------------------------
(* flatten, lines 73-94 *)

RECURSIVE flatten(_, _)
RECURSIVE FlattenEntries(_, _, _)

\* the inner loop of lines 84-87: flattened[key + separator + x] = flatObject[x]
RECURSIVE Rekey(_, _, _, _)
Rekey(flatKv, key, separator, flattened) ==
  IF flatKv = <<>> THEN flattened
  ELSE Rekey(Tail(flatKv), key, separator,
             Put(flattened, key \o separator \o Head(flatKv)[1], Head(flatKv)[2]))

\* the loop of lines 78-91 over the own properties of object
FlattenEntries(kv, separator, flattened) ==
  IF kv = <<>> THEN flattened
  ELSE LET key == Head(kv)[1]
           val == Head(kv)[2]
       IN IF val.t # "null" /\ TypeofObject(val)
          THEN FlattenEntries(Tail(kv), separator,
                              Rekey(flatten(val, separator).kv, key, separator, flattened))
          ELSE FlattenEntries(Tail(kv), separator, Put(flattened, key, val))

flatten(object, separator) ==
  IF ~isObject(object) THEN Throw("InvalidArgument")
  ELSE Obj(FlattenEntries(object.kv, separator, <<>>))

----------------------------------------------------------------------------
(* clear, lines 143-151 *)

\* _.pickBy(object, _.isObject)
pickByIsObject(kv) == fromPairs(SelectSeq(kv, LAMBDA p : isObject(p[2])))

\* _.omitBy(object, _.isObject)
omitByIsObject(kv) == fromPairs(SelectSeq(kv, LAMBDA p : ~isObject(p[2])))

\* _.isEmpty of an object or array: no own enumerable property
isEmpty(v) == v.kv = <<>>

\* .omitBy(_.isEmpty)
omitByIsEmpty(kv) == fromPairs(SelectSeq(kv, LAMBDA p : ~isEmpty(p[2])))

\* .assign(source): every own property of source is set on the object
RECURSIVE assign(_, _)
assign(kv, source) ==
  IF source = <<>> THEN kv
  ELSE assign(Put(kv, Head(source)[1], Head(source)[2]), Tail(source))

\* .mapValues(v => (_.isObject(v) ? v : {}))
mapValuesToObject(kv) ==
  [i \in 1..Len(kv) |-> <<kv[i][1], IF isObject(kv[i][2]) THEN kv[i][2] ELSE Obj(<<>>)>>]

RECURSIVE clear(_, _)

\* .mapValues(clear): lodash calls clear(value, key, object), and the key, a
\* string, has no skipFirstDepth property, so the children are cleared in
\* default mode
mapValuesClear(kv) == [i \in 1..Len(kv) |-> <<kv[i][1], clear(kv[i][2], FALSE)>>]

\* clear with the empty children omitted before the children are cleared
\* instead of after
clearOmitFirst(object, skipFirstDepth) ==
  IF skipFirstDepth
  THEN Obj(mapValuesToObject(
             assign(mapValuesClear(pickByIsObject(object.kv)), omitByIsObject(object.kv))))
  ELSE Obj(assign(mapValuesClear(omitByIsEmpty(pickByIsObject(object.kv))),
                  omitByIsObject(object.kv)))

clear(object, skipFirstDepth) ==
  IF skipFirstDepth
  THEN Obj(mapValuesToObject(
             assign(mapValuesClear(pickByIsObject(object.kv)), omitByIsObject(object.kv))))
  ELSE Obj(assign(omitByIsEmpty(mapValuesClear(pickByIsObject(object.kv))),
                  omitByIsObject(object.kv)))

----------------------------------------------------------------------------
(* sort, lines 160-166 *)

\* .sortBy(0): a stable sort of the pairs by their key, ascending
RECURSIVE InsertSorted(_, _)
InsertSorted(sorted, p) ==
  IF sorted = <<>> THEN <<p>>
  ELSE IF StrLess(p[1], Head(sorted)[1]) THEN <<p>> \o sorted
  ELSE <<Head(sorted)>> \o InsertSorted(Tail(sorted), p)

RECURSIVE sortBy0(_)
sortBy0(pairs) ==
  IF pairs = <<>> THEN <<>>
  ELSE InsertSorted(sortBy0(SubSeq(pairs, 1, Len(pairs) - 1)), pairs[Len(pairs)])

RECURSIVE sort(_)
sort(object) ==
  Obj(fromPairs(sortBy0(
        [i \in 1..Len(object.kv) |->
           <<object.kv[i][1],
             IF isObject(object.kv[i][2]) THEN sort(object.kv[i][2]) ELSE object.kv[i][2]>>])))

----------------------------------------------------------------------------
(* isAssignable, lines 177-191 *)

\* hasOwnProperty.call(v, key), as lodash baseHas asks it
HasOwn(v, key) ==
  CASE isObject(v) -> HasKey(v.kv, key)
    [] v.t = "str" -> IsIndex(key) /\ ToNum(key) < Len(v.s)
    [] OTHER -> FALSE

\* v[key] for a v that is neither null nor undefined
GetProp(v, key) ==
  CASE isObject(v) -> GetKey(v.kv, key)
    [] v.t = "str" /\ IsIndex(key) /\ ToNum(key) < Len(v.s) -> Str(<<v.s[ToNum(key) + 1]>>)
    [] OTHER -> Undefined

\* lodash castPath: a string that is a key of the object, or that has no
\* dot, is one key; any other string is split at its dots
castPath(point, object) ==
  IF HasKey(object.kv, point) \/ (\A i \in 1..Len(point) : point[i] # ".")
  THEN <<point>>
  ELSE Split(point, <<".">>)

\* _.has(object, point)
RECURSIVE hasPath(_, _)
hasPath(v, path) ==
  IF path = <<>> THEN TRUE
  ELSE /\ v.t \notin {"null", "undefined"}
       /\ HasOwn(v, Head(path))
       /\ hasPath(GetProp(v, Head(path)), Tail(path))

has(object, point) == hasPath(object, castPath(point, object))

\* _.get(object, point)
RECURSIVE baseGet(_, _)
baseGet(v, path) ==
  IF path = <<>> THEN v
  ELSE IF v.t \in {"null", "undefined"} THEN Undefined
  ELSE baseGet(GetProp(v, Head(path)), Tail(path))

get(object, point) == baseGet(object, castPath(point, object))

\* lines 178: a string path is split, an array path is taken as it is
pathArray(path, separator) ==
  IF path.t = "str" THEN Split(path.s, separator)
  ELSE [i \in 1..Len(path.kv) |-> path.kv[i][2].s]

\* lines 180-183: the cumulative points, always joined by a dot
RECURSIVE pathPoints(_)
pathPoints(arr) ==
  IF arr = <<>> THEN <<>>
  ELSE LET n == Len(arr)
           before == pathPoints(SubSeq(arr, 1, n - 1))
       IN Append(before, IF n > 1 THEN before[n - 1] \o <<".">> \o arr[n] ELSE arr[n])

\* lines 186-190: the first point that holds a value whose typeof is not 'object'
RECURSIVE FirstInvalid(_, _)
FirstInvalid(object, points) ==
  IF points = <<>> THEN Bool(TRUE)
  ELSE IF has(object, Head(points)) /\ ~TypeofObject(get(object, Head(points)))
       THEN Str(Head(points))
       ELSE FirstInvalid(object, Tail(points))

isAssignable(object, path, separator) ==
  FirstInvalid(object, pathPoints(pathArray(path, separator)))

----------------------------------------------------------------------------
(* unflatten, lines 104-131 *)

(***************************************************************************)
(* Line 121 stores the input's own value, by reference, in the result, and *)
(* a later key may walk into it and write to it.  unflatten is therefore   *)
(* run on a heap: a sequence of cells, a cell being the t and kv of one    *)
(* object or array, a property holding a primitive or a reference          *)
(* [t |-> "ref", a |-> address].                                           *)
(***************************************************************************)
Ref(a) == [t |-> "ref", a |-> a]

\* the heap with the value v stored in it, and what a property holding v holds
RECURSIVE Load(_, _)
RECURSIVE LoadKv(_, _, _)
LoadKv(heap, kv, acc) ==
  IF kv = <<>> THEN [heap |-> heap, kv |-> acc]
  ELSE LET r == Load(heap, Head(kv)[2])
       IN LoadKv(r.heap, Tail(kv), Append(acc, <<Head(kv)[1], r.slot>>))

Load(heap, v) ==
  IF ~isObject(v) THEN [heap |-> heap, slot |-> v]
  ELSE LET a == Len(heap) + 1
           r == LoadKv(Append(heap, [t |-> v.t, kv |-> <<>>]), v.kv, <<>>)
       IN [heap |-> [r.heap EXCEPT ![a].kv = r.kv], slot |-> Ref(a)]

\* the value a property holds, read back from the heap
RECURSIVE Read(_, _)
Read(heap, slot) ==
  IF slot.t # "ref" THEN slot
  ELSE LET cell == heap[slot.a]
       IN [t |-> cell.t,
           kv |-> [i \in 1..Len(cell.kv) |-> <<cell.kv[i][1], Read(heap, cell.kv[i][2])>>]]

\* currentNode[keyPart], line 124; currentNode is never null nor undefined
NodeGet(heap, currentNode, keyPart) ==
  IF currentNode.t = "ref" THEN GetKey(heap[currentNode.a].kv, keyPart)
  ELSE GetProp(currentNode, keyPart)

\* currentNode[keyPart] = v, lines 121 and 124.  On a primitive currentNode
\* strict-mode code throws a TypeError and sloppy-mode code does nothing.
NodeSet(heap, currentNode, keyPart, v, isStrict) ==
  IF currentNode.t = "ref"
  THEN [heap |-> [heap EXCEPT ![currentNode.a].kv = Put(@, keyPart, v)], thrown |-> FALSE]
  ELSE [heap |-> heap, thrown |-> isStrict]

\* the loop of lines 115-127 over the parts of one key, from part i on
RECURSIVE WalkParts(_, _, _, _, _, _)
WalkParts(heap, keyParts, i, currentNode, value, isStrict) ==
  IF i > Len(keyParts) THEN [heap |-> heap, thrown |-> FALSE]
  ELSE LET keyPart == keyParts[i]
       IN IF keyPart = <<>>
          THEN WalkParts(heap, keyParts, i + 1, currentNode, value, isStrict)
          ELSE IF i = Len(keyParts)
          THEN NodeSet(heap, currentNode, keyPart, value, isStrict)
          ELSE LET existing == NodeGet(heap, currentNode, keyPart)
                   h1 == IF Truthy(existing) THEN heap
                         ELSE Append(heap, [t |-> "obj", kv |-> <<>>])
                   next == IF Truthy(existing) THEN existing ELSE Ref(Len(heap) + 1)
                   w == NodeSet(h1, currentNode, keyPart, next, isStrict)
               IN IF w.thrown THEN w
                  ELSE WalkParts(w.heap, keyParts, i + 1, next, value, isStrict)

\* the loop of lines 109-128 over the own properties of flatObject
RECURSIVE UnflattenEntries(_, _, _, _, _)
UnflattenEntries(heap, kv, separator, nested, isStrict) ==
  IF kv = <<>> THEN [heap |-> heap, thrown |-> FALSE]
  ELSE LET w == WalkParts(heap, Split(Head(kv)[1], separator), 1, nested,
                          Head(kv)[2], isStrict)
       IN IF w.thrown THEN w
          ELSE UnflattenEntries(w.heap, Tail(kv), separator, nested, isStrict)

\* the call unflatten(flatObject, {separator}): what it returns or throws, and
\* what flatObject is once the call is over
unflattenCall(flatObject, separator, isStrict) ==
  IF ~isObject(flatObject)
  THEN [ret |-> Throw("InvalidArgument"), after |-> flatObject]
  ELSE LET l == Load(<<>>, flatObject)
           nested == Ref(Len(l.heap) + 1)
           h0 == Append(l.heap, [t |-> "obj", kv |-> <<>>])
           w == UnflattenEntries(h0, l.heap[l.slot.a].kv, separator, nested, isStrict)
       IN [ret |-> IF w.thrown THEN Throw("TypeError") ELSE Read(w.heap, nested),
           after |-> Read(w.heap, l.slot)]

unflatten(flatObject, separator, isStrict) ==
  unflattenCall(flatObject, separator, isStrict).ret

----------------------------------------------------------------------------
(* The inputs *)

\* the separator every call is given: the default of lines 73, 104 and 177
Separator == <<".">>

\* the most entries (properties and elements, at every depth together) of a
\* nested input
MaxSize == 3

\* the most keys of a flat input
MaxFlatKeys == 2

\* the most calls the caller makes, one after the other
MaxCalls == 2

NestedKeys == {<<"a">>, <<"b">>}

NestedPrims == {Num(1), Null}

\* the array of the elements els
ArrOf(els) == Arr([i \in 1..Len(els) |-> <<ToStr(i - 1), els[i]>>])

\* the values, property lists and element lists of at most n entries
RECURSIVE ValuesOfSize(_)
RECURSIVE EntriesOfSize(_)
RECURSIVE ElementsOfSize(_)
EntriesOfSize(n) ==
  {<<>>} \cup
  UNION {UNION {{<< <<k, v>> >> \o rest :
                   k \in NestedKeys \ KeysOf(rest), v \in ValuesOfSize(m)} :
                rest \in EntriesOfSize(n - 1 - m)} :
         m \in 0..(n - 1)}

ElementsOfSize(n) ==
  {<<>>} \cup
  UNION {UNION {{<<v>> \o rest : v \in ValuesOfSize(m)} :
                rest \in ElementsOfSize(n - 1 - m)} :
         m \in 0..(n - 1)}

ValuesOfSize(n) ==
  NestedPrims \cup {Obj(kv) : kv \in EntriesOfSize(n)}
              \cup {ArrOf(els) : els \in ElementsOfSize(n)}

\* nested inputs: objects and arrays, and the values that are neither
NestedInputs == ValuesOfSize(MaxSize) \cup {Num(1), Str(<<"a">>), Bool(TRUE)}

\* the keys of flat inputs: plain, compound, and with a leading, a doubled
\* and a trailing separator, and keys with no segment at all
FlatKeys ==
  { <<"a">>, <<"a", ".", "b">>, <<".", "a", ".", "b">>, <<"a", ".", ".", "b">>,
    <<"a", ".", "b", ".">>, <<".">>, <<>> }

FlatValues ==
  { Num(0), Num(1), Str(<<"a">>), Obj(<<>>), Obj(<< <<<<"b">>, Num(1)>> >>) }

RECURSIVE FlatEntries(_)
FlatEntries(n) ==
  IF n = 0 THEN {<<>>}
  ELSE FlatEntries(n - 1) \cup
       UNION {{Append(rest, <<k, v>>) : k \in FlatKeys \ KeysOf(rest), v \in FlatValues} :
              rest \in FlatEntries(n - 1)}

FlatInputs == {Obj(kv) : kv \in FlatEntries(MaxFlatKeys)}

\* the paths isAssignable is asked about: strings, and one array of segments
Paths ==
  { Str(<<"a">>), Str(<<"a", ".", "b">>), Str(<<"a", ".", "b", ".", "a">>),
    Str(<<"b", ".", "a">>), Str(<<"a", ".", "0">>),
    ArrOf(<<Str(<<"a">>), Str(<<"b">>)>>) }

----------------------------------------------------------------------------
(* The caller *)

NoCall == [op |-> "none"]

Call(op, arg, opt, ret, after) ==
  [op |-> op, arg |-> arg, opt |-> opt, ret |-> ret, after |-> after]

\* the call is over: the caller goes on with what it returned, when it
\* returned an object, and with what it held before otherwise
Done(call) ==
  /\ prev' = last
  /\ last' = call
  /\ cur' = IF isObject(call.ret) THEN call.ret ELSE cur
  /\ calls' = calls + 1
  /\ UNCHANGED strict

Init ==
  /\ strict \in BOOLEAN
  /\ cur \in NestedInputs \cup FlatInputs
  /\ last = NoCall
  /\ prev = NoCall
  /\ calls = 0

\* flatten(cur): any value can be passed, line 76 rejects some
Flatten ==
  /\ calls < MaxCalls
  /\ Done(Call("flatten", cur, Separator, flatten(cur, Separator), cur))

\* unflatten(cur): any value can be passed, line 107 rejects some
Unflatten ==
  /\ calls < MaxCalls
  /\ LET c == unflattenCall(cur, Separator, strict)
     IN Done(Call("unflatten", cur, Separator, c.ret, c.after))

\* clear(cur, {skipFirstDepth}) of an object
Clear ==
  /\ calls < MaxCalls
  /\ isObject(cur)
  /\ \E skipFirstDepth \in BOOLEAN :
       Done(Call("clear", cur, skipFirstDepth, clear(cur, skipFirstDepth), cur))

\* sort(cur) of an object
Sort ==
  /\ calls < MaxCalls
  /\ isObject(cur)
  /\ Done(Call("sort", cur, Separator, sort(cur), cur))

\* isAssignable(cur, path) of an object
IsAssignable ==
  /\ calls < MaxCalls
  /\ isObject(cur)
  /\ \E path \in Paths :
       Done(Call("isAssignable", cur, path, isAssignable(cur, path, Separator), cur))

Next == Flatten \/ Unflatten \/ Clear \/ Sort \/ IsAssignable

Spec == Init /\ [][Next]_vars

\* the caller that only clears, starting from a nested object or array
InitClear ==
  /\ strict \in BOOLEAN
  /\ cur \in {v \in ValuesOfSize(MaxSize) : isObject(v)}
  /\ last = NoCall
  /\ prev = NoCall
  /\ calls = 0

NextClear == Clear

SpecClear == InitClear /\ [][NextClear]_vars

----------------------------------------------------------------------------
(* The vocabulary of the claims: the data model of the specification, where *)
(* a Structure is a plain mapping and every other value, an array          *)
(* included, is a scalar                                                   *)

\* a Structure: a plain mapping
IsStructure(v) == v.t = "obj"

\* v is an array or holds one at some depth
RECURSIVE ContainsArray(_)
ContainsArray(v) ==
  \/ v.t = "arr"
  \/ (isObject(v) /\ \E i \in 1..Len(v.kv) : ContainsArray(v.kv[i][2]))

\* the non-empty segments of a flat key
Segments(key, separator) == SelectSeq(Split(key, separator), LAMBDA part : part # <<>>)

\* the value a Structure holds at a path of segments, walking Structures
\* only; undefined when it holds none
RECURSIVE ValueAt(_, _)
ValueAt(v, segs) ==
  IF segs = <<>> THEN v
  ELSE IF IsStructure(v) /\ HasKey(v.kv, Head(segs))
       THEN ValueAt(GetKey(v.kv, Head(segs)), Tail(segs))
       ELSE Undefined

\* equality of values that does not look at the order of the keys
RECURSIVE DeepEqual(_, _)
DeepEqual(x, y) ==
  IF isObject(x) /\ isObject(y)
  THEN /\ x.t = y.t
       /\ KeysOf(x.kv) = KeysOf(y.kv)
       /\ \A k \in KeysOf(x.kv) : DeepEqual(GetKey(x.kv, k), GetKey(y.kv, k))
  ELSE x = y

\* some key, at some depth of the Structures of v, is empty or contains the
\* separator, and so is no single segment of a path
RECURSIVE SeparatorInKey(_, _)
SeparatorInKey(v, separator) ==
  /\ IsStructure(v)
  /\ \E i \in 1..Len(v.kv) :
       \/ Segments(v.kv[i][1], separator) # <<v.kv[i][1]>>
       \/ SeparatorInKey(v.kv[i][2], separator)

\* r is x with its empty nested Structures removed: a Structure child is
\* there, cleared and not empty, or is not there and clears to nothing; a
\* scalar child is there unchanged
RECURSIVE IsClearOf(_, _)
IsClearOf(x, r) ==
  /\ IsStructure(r)
  /\ KeysOf(r.kv) \subseteq KeysOf(x.kv)
  /\ \A k \in KeysOf(x.kv) :
       LET v == GetKey(x.kv, k)
           c == GetKey(r.kv, k)
       IN IF IsStructure(v)
          THEN IF HasKey(r.kv, k) THEN c.kv # <<>> /\ IsClearOf(v, c)
               ELSE IsClearOf(v, Obj(<<>>))
          ELSE HasKey(r.kv, k) /\ c = v

\* the keys of kv are in ascending order
Ascending(kv) == \A i \in 1..(Len(kv) - 1) : StrLess(kv[i][1], kv[i + 1][1])

\* r is x reordered: the same keys, the scalars unmodified, the Structures
\* reordered in turn, every key list ascending
RECURSIVE IsSortOf(_, _)
IsSortOf(x, r) ==
  /\ IsStructure(r)
  /\ KeysOf(r.kv) = KeysOf(x.kv)
  /\ Ascending(r.kv)
  /\ \A k \in KeysOf(x.kv) :
       LET v == GetKey(x.kv, k)
           c == GetKey(r.kv, k)
       IN IF IsStructure(v) THEN IsSortOf(v, c) ELSE c = v

\* the cumulative prefixes of a path, as lists of segments
Prefixes(segs) == [i \in 1..Len(segs) |-> SubSeq(segs, 1, i)]

\* the segments joined by dots
RECURSIVE JoinDots(_)
JoinDots(segs) ==
  IF Len(segs) = 1 THEN segs[1]
  ELSE JoinDots(SubSeq(segs, 1, Len(segs) - 1)) \o <<".">> \o segs[Len(segs)]

\* the object holds, at these segments, a value that is not a Structure
Collides(object, segs) ==
  LET v == ValueAt(object, segs) IN v.t # "undefined" /\ ~IsStructure(v)

\* the Structure that holds v at the end of the chain of segments
RECURSIVE Chain(_, _)
Chain(segs, v) ==
  IF segs = <<>> THEN v ELSE Obj(<< <<Head(segs), Chain(Tail(segs), v)>> >>)

----------------------------------------------------------------------------
(* The claims *)

\* C1: for every Structure X whose keys are segments that do not contain the
\* separator, unflatten(flatten(X)), with the same separator, equals X.
RoundTrip ==
  ( /\ last.op = "unflatten"
    /\ prev.op = "flatten"
    /\ IsStructure(prev.arg)
    /\ last.arg = prev.ret
    /\ last.opt = prev.opt
    /\ ~SeparatorInKey(prev.arg, prev.opt) )
  => DeepEqual(last.ret, prev.arg)

\* C2: flatten and unflatten fail with InvalidArgument for every input that
\* is not a Structure (a number, a string, null, an array as the root), and
\* do not fail for any Structure.
InvalidArgumentIffNotStructure ==
  last.op \in {"flatten", "unflatten"}
  => IF IsStructure(last.arg) THEN last.ret.t # "throw"
     ELSE last.ret = Throw("InvalidArgument")

\* C3: isAssignable(O, P) returns the shortest cumulative prefix of P at
\* which O holds a value that is not a Structure (a number, a string, a
\* boolean, null or an array), and true exactly when no prefix holds one.
\* O is a Structure whose keys are single segments.
ShortestCollidingPrefix ==
  ( /\ last.op = "isAssignable"
    /\ IsStructure(last.arg)
    /\ ~SeparatorInKey(last.arg, Separator) )
  => LET segs == pathArray(last.opt, Separator)
         hits == {i \in 1..Len(segs) : Collides(last.arg, Prefixes(segs)[i])}
     IN IF hits = {} THEN last.ret = Bool(TRUE)
        ELSE last.ret = Str(JoinDots(Prefixes(segs)[CHOOSE i \in hits : \A j \in hits : i <= j]))

\* C4: in default mode clear(X) drops every Structure child whose cleared
\* result is empty, keeps every other Structure child as its cleared result
\* and keeps every scalar entry, at every depth, with its value unchanged.
ClearDefaultPrunes ==
  (last.op = "clear" /\ IsStructure(last.arg) /\ last.opt = FALSE)
  => IsClearOf(last.arg, last.ret)

\* C5: with skipFirstDepth, clear(X) has the top-level keys of X; a top-level
\* Structure becomes its default-mode clear, kept even when empty, and a
\* top-level value that is not a Structure becomes an empty Structure.
ClearSkipKeepsTopLevel ==
  (last.op = "clear" /\ IsStructure(last.arg) /\ last.opt = TRUE)
  => /\ IsStructure(last.ret)
     /\ KeysOf(last.ret.kv) = KeysOf(last.arg.kv)
     /\ \A k \in KeysOf(last.arg.kv) :
          LET v == GetKey(last.arg.kv, k)
              c == GetKey(last.ret.kv, k)
          IN IF IsStructure(v) THEN IsClearOf(v, c) ELSE c = Obj(<<>>)

\* C6: sort(X) is a pure reordering of X (the same keys at every depth, every
\* scalar unmodified, every Structure sorted, the keys ascending), and so
\* sort(sort(X)) = sort(X).
SortReorders ==
  /\ (last.op = "sort" /\ IsStructure(last.arg)) => IsSortOf(last.arg, last.ret)
  /\ ( /\ last.op = "sort"
       /\ prev.op = "sort"
       /\ IsStructure(prev.arg)
       /\ last.arg = prev.ret ) => last.ret = prev.ret

\* C7: clear is idempotent: for every Structure X and either value of
\* skipFirstDepth, used in both calls, clear(clear(X)) = clear(X), the order
\* of the keys included.
ClearIdempotent ==
  ( /\ last.op = "clear"
    /\ prev.op = "clear"
    /\ IsStructure(prev.arg)
    /\ last.opt = prev.opt
    /\ last.arg = prev.ret )
  => last.ret = prev.ret

\* C7, reached: a Structure with no array in it was cleared twice in default
\* mode; the first call kept every top-level key and moved a scalar behind a
\* Structure, and the second call returned the same keys in the same order
ClearedTwice ==
  /\ last.op = "clear"
  /\ prev.op = "clear"
  /\ IsStructure(prev.arg)
  /\ ~ContainsArray(prev.arg)
  /\ prev.opt = FALSE
  /\ last.opt = FALSE
  /\ last.arg = prev.ret
  /\ Len(prev.ret.kv) = Len(prev.arg.kv)
  /\ \E i \in 1..Len(prev.ret.kv) : prev.ret.kv[i][1] # prev.arg.kv[i][1]
  /\ last.ret = prev.ret

\* C8: no operation mutates its input: after a call the input, and every
\* Structure reachable from it, is what it was before the call.
InputUnchanged ==
  last.op # "none" => last.after = last.arg

\* C9: in unflatten, when an intermediate segment of a key holds a scalar
\* assigned by an earlier key, the scalar is replaced by a fresh Structure
\* and the later value is assigned beneath it; nothing is thrown.
ScalarOverwritten ==
  (last.op = "unflatten" /\ IsStructure(last.arg))
  => \A i, j \in 1..Len(last.arg.kv) :
       LET ki == last.arg.kv[i][1]
           kj == last.arg.kv[j][1]
           si == Split(ki, last.opt)
           sj == Split(kj, last.opt)
       IN ( /\ i < j
            /\ j = Len(last.arg.kv)
            /\ \A part \in {si[n] : n \in 1..Len(si)} \cup {sj[n] : n \in 1..Len(sj)} :
                 part # <<>>
            /\ Len(si) < Len(sj)
            /\ SubSeq(sj, 1, Len(si)) = si
            /\ ~isObject(last.arg.kv[i][2]) )
          => /\ last.ret.t # "throw"
             /\ ValueAt(last.ret, sj) = last.arg.kv[j][2]

\* C10: unflatten discards the empty segments of a key and assigns the value
\* at the last of the segments left, beneath Structures for the earlier
\* ones; a key with no segment left contributes nothing.
EmptySegmentsDiscarded ==
  (last.op = "unflatten" /\ IsStructure(last.arg) /\ Len(last.arg.kv) = 1)
  => last.ret = Chain(Segments(last.arg.kv[1][1], last.opt),
                      IF Segments(last.arg.kv[1][1], last.opt) = <<>>
                      THEN Obj(<<>>) ELSE last.arg.kv[1][2])

====
